---- MODULE Spec2Model ----
(***************************************************************************)
(* LimitedGlobalRateLimiter of nextcore.http.global_rate_limiter.limited.  *)
(*                                                                         *)
(* The limiter runs on one asyncio event loop.  A call of acquire() is a   *)
(* coroutine with two suspension points: the `await future` of a queued    *)
(* request and the `yield` that hands the scope to the caller.  Each run   *)
(* between two suspension points is one atomic action here:                *)
(*   Acquire    lines 55-69  up to the await (queued) or the yield         *)
(*   Resume     lines 66-69  a released waiter's task is stepped again     *)
(*   ScopeExit  lines 72-80  the finally block                             *)
(*   Reset      lines 82-102 the call_later callback                       *)
(*   Update     lines 104-105                                              *)
(***************************************************************************)
EXTENDS Integers, Sequences, FiniteSets, TLC

\* ---- bounds of the model -------------------------------------------------
MaxRequests == 4
MaxLimit == 2
MaxPriority == 2
MaxRetryAfter == 1

\* ---- program constants ---------------------------------------------------
InitialRemaining == 50
DefaultPriority == 0

Requests == 1..MaxRequests
Limits == 1..MaxLimit
Priorities == 0..MaxPriority
Outcomes == {"returned", "raised", "cancelled"}

VARIABLES
    limit,              \* self.limit
    remaining,          \* self.remaining
    reserved_requests,  \* self._reserved_requests
    pending_reset,      \* self._pending_reset
    pending_requests,   \* self._pending_requests: set of containers
    sequence,           \* insertion counter of the queue entries
    timers,             \* number of _reset callbacks scheduled by call_later
    wakeups,            \* loop's ready queue: tasks whose future was resolved
    pc,                 \* per request: position of its acquire() coroutine
    prio,               \* per request: priority of its container while it waits
    seqno,              \* per request: sequence of its container, 0 if not queued
    given,              \* per request: TRUE while it waits and passed a priority
    resolved,           \* per request: set_result calls on its future
    arrived,            \* number of acquire() calls made so far
    admitted,           \* admissions since the last _reset (or construction)
    cycled,             \* TRUE once _reset has run at least once
    bookkept,           \* per request: runs of the finally block
    last_outcome,       \* how the gated operation of the latest scope exit ended
    warned              \* TRUE once update() has logged its warning

vars == <<limit, remaining, reserved_requests, pending_reset, pending_requests,
          sequence, timers, wakeups, pc, prio, seqno, given, resolved, arrived,
          admitted, cycled, bookkept, last_outcome, warned>>

\* ---- helpers --------------------------------------------------------------
Min(a, b) == IF a <= b THEN a ELSE b

\* PriorityRequestContainer(priority, future), with the insertion sequence
Container(p, s, r) == [priority |-> p, sequence |-> s, future |-> r]

\* ordering of two containers in the queue: priority, then insertion sequence
ContainerLess(a, b) ==
    \/ a.priority < b.priority
    \/ a.priority = b.priority /\ a.sequence < b.sequence

\* a queue that hands out the greatest priority value first
GetNowait_Greatest(q) ==
    CHOOSE c \in q : \A d \in q \ {c} :
        \/ c.priority > d.priority
        \/ c.priority = d.priority /\ c.sequence < d.sequence

\* a queue that hands out the latest arrival among equal priorities
GetNowait_LatestTie(q) ==
    CHOOSE c \in q : \A d \in q \ {c} :
        \/ c.priority < d.priority
        \/ c.priority = d.priority /\ c.sequence > d.sequence

\* PriorityQueue.get_nowait(): the least container of the queue
GetNowait(q) == CHOOSE c \in q : \A d \in q \ {c} : ContainerLess(c, d)

\* a cycle that keeps one slot back
ToRelease_OneShort(qsize, rem, res) == Min(qsize, rem - res - 1)

\* min(self._pending_requests.qsize(), self.remaining - self._reserved_requests)
ToRelease(qsize, rem, res) == Min(qsize, rem - res)

\* for _ in range(to_release): get_nowait(); set_result(None)
\* the containers taken, in the order their futures are resolved
RECURSIVE ReleaseLoop(_, _)
ReleaseLoop(q, n) ==
    IF n <= 0 THEN <<>>
    ELSE LET c == GetNowait(q)
         IN  <<c>> \o ReleaseLoop(q \ {c}, n - 1)

Range(s) == {s[i] : i \in 1..Len(s)}

\* a loop that reads the head of the queue without removing it
Left_Kept(q, released) == q

\* get_nowait() removes what it returns: the queue after the release loop
Left(q, released) == q \ Range(released)

\* ---- initial state: after __init__ ---------------------------------------
Init ==
    /\ limit \in Limits
    /\ remaining = InitialRemaining
    /\ pending_requests = {}
    /\ reserved_requests = 0
    /\ pending_reset = FALSE
    /\ sequence = 1
    /\ timers = 0
    /\ wakeups = <<>>
    /\ pc = [r \in Requests |-> "idle"]
    /\ prio = [r \in Requests |-> DefaultPriority]
    /\ seqno = [r \in Requests |-> 0]
    /\ given = [r \in Requests |-> FALSE]
    /\ resolved = [r \in Requests |-> 0]
    /\ arrived = 0
    /\ admitted = 0
    /\ cycled = FALSE
    /\ bookkept = [r \in Requests |-> 0]
    /\ last_outcome = "none"
    /\ warned = FALSE

\* ---- acquire(priority): from the call to the first suspension ------------
\* explicit tells whether the caller passed priority or left the default
AcquireCall(r, p, explicit) ==
    /\ pc[r] = "idle"
    /\ r = arrived + 1
    /\ arrived' = r
    /\ LET calculated_remaining == remaining - reserved_requests
       IN  IF calculated_remaining = 0
           THEN /\ pending_requests' = pending_requests \cup {Container(p, sequence, r)}
                /\ sequence' = sequence + 1
                /\ seqno' = [seqno EXCEPT ![r] = sequence]
                /\ prio' = [prio EXCEPT ![r] = p]
                /\ given' = [given EXCEPT ![r] = explicit]
                /\ pc' = [pc EXCEPT ![r] = "waiting"]
                /\ UNCHANGED <<reserved_requests, admitted>>
           ELSE /\ reserved_requests' = reserved_requests + 1
                /\ admitted' = admitted + 1
                /\ pc' = [pc EXCEPT ![r] = "inscope"]
                /\ UNCHANGED <<pending_requests, sequence, seqno, prio, given>>
    /\ UNCHANGED <<limit, remaining, pending_reset, timers, wakeups, cycled,
                   bookkept, last_outcome, warned, resolved>>

\* acquire(priority=p)
Acquire(r, p) == AcquireCall(r, p, TRUE)

\* acquire(): priority takes its default
AcquireDefault(r) == AcquireCall(r, DefaultPriority, FALSE)

\* ---- a released waiter continues after `await future` --------------------
Resume(r) ==
    /\ wakeups # <<>>
    /\ r = Head(wakeups)
    /\ pc[r] = "released"
    /\ wakeups' = Tail(wakeups)
    /\ reserved_requests' = reserved_requests + 1
    /\ admitted' = admitted + 1
    /\ pc' = [pc EXCEPT ![r] = "inscope"]
    /\ prio' = [prio EXCEPT ![r] = DefaultPriority]
    /\ given' = [given EXCEPT ![r] = FALSE]
    /\ UNCHANGED <<limit, remaining, pending_reset, pending_requests, sequence,
                   timers, seqno, resolved, arrived, cycled, bookkept,
                   last_outcome, warned>>

\* ---- the scope is left: the finally block, whatever the outcome ----------
\* a scope exit that schedules _reset without looking at the flag
NeedsTimer_Always == TRUE

\* if not self._pending_reset
NeedsTimer == ~pending_reset

\* bookkeeping placed after the yield without try/finally
RunsFinally_OnReturnOnly(outcome) == outcome = "returned"

\* try: yield / finally: the block runs however the body ended
RunsFinally(outcome) == outcome \in Outcomes

ScopeExit(r, outcome) ==
    /\ pc[r] = "inscope"
    /\ outcome \in Outcomes
    /\ IF RunsFinally(outcome)
       THEN /\ IF NeedsTimer
               THEN /\ pending_reset' = TRUE
                    /\ timers' = timers + 1
               ELSE UNCHANGED <<pending_reset, timers>>
            /\ reserved_requests' = reserved_requests - 1
            /\ remaining' = remaining - 1
            /\ bookkept' = [bookkept EXCEPT ![r] = @ + 1]
       ELSE UNCHANGED <<pending_reset, timers, reserved_requests, remaining, bookkept>>
    /\ pc' = [pc EXCEPT ![r] = "done"]
    /\ last_outcome' = outcome
    /\ seqno' = [seqno EXCEPT ![r] = 0]
    /\ UNCHANGED <<limit, pending_requests, sequence, wakeups, prio, given,
                   resolved, arrived, admitted, cycled, warned>>

\* ---- _reset(): the scheduled callback fires ------------------------------
\* a cycle that leaves remaining as it found it
Replenished_Kept == remaining

\* self.remaining = self.limit
Replenished == limit

\* a cycle that schedules the next one whatever the queue holds
Rearm_Always(qsize) == TRUE

\* a cycle that never schedules the next one
Rearm_Never(qsize) == FALSE

\* if self._pending_requests.qsize()
Rearm(qsize) == qsize # 0

\* The loop runs the wake-ups queued by an earlier _reset before any timer
\* that became due later, so no wake-up is outstanding when _reset runs.
Reset ==
    /\ timers > 0
    /\ wakeups = <<>>
    /\ LET new_remaining == Replenished
           to_release == ToRelease(Cardinality(pending_requests), new_remaining,
                                   reserved_requests)
           released == ReleaseLoop(pending_requests, to_release)
           left == Left(pending_requests, released)
       IN  /\ remaining' = new_remaining
           /\ pending_requests' = left
           /\ wakeups' = [i \in 1..Len(released) |-> released[i].future]
           /\ pc' = [r \in Requests |->
                        IF \E i \in 1..Len(released) : released[i].future = r
                        THEN "released" ELSE pc[r]]
           /\ resolved' = [r \in Requests |->
                        IF \E i \in 1..Len(released) : released[i].future = r
                        THEN resolved[r] + 1 ELSE resolved[r]]
           /\ IF Rearm(Cardinality(left))
              THEN /\ pending_reset' = TRUE
                   /\ timers' = (timers - 1) + 1
              ELSE /\ pending_reset' = FALSE
                   /\ timers' = timers - 1
    /\ admitted' = 0
    /\ cycled' = TRUE
    /\ UNCHANGED <<limit, reserved_requests, sequence, prio, seqno, given,
                   arrived, bookkept, last_outcome, warned>>

\* ---- update(retry_after): logs a warning ---------------------------------
\* a hook that closes the window when the server reports a rate limit
Update_ClosesWindow(retry_after) ==
    /\ retry_after \in 0..MaxRetryAfter
    /\ warned' = TRUE
    /\ remaining' = reserved_requests
    /\ UNCHANGED <<limit, reserved_requests, pending_reset, pending_requests,
                   sequence, timers, wakeups, pc, prio, seqno, given, resolved,
                   arrived, admitted, cycled, bookkept, last_outcome>>

Update(retry_after) ==
    /\ retry_after \in 0..MaxRetryAfter
    /\ warned' = TRUE
    /\ UNCHANGED <<limit, remaining, reserved_requests, pending_reset,
                   pending_requests, sequence, timers, wakeups, pc, prio, seqno,
                   given, resolved, arrived, admitted, cycled, bookkept,
                   last_outcome>>

Next ==
    \/ \E r \in Requests, p \in Priorities : Acquire(r, p)
    \/ \E r \in Requests : AcquireDefault(r)
    \/ \E r \in Requests : Resume(r)
    \/ \E r \in Requests, o \in Outcomes : ScopeExit(r, o)
    \/ Reset
    \/ \E t \in 0..MaxRetryAfter : Update(t)

Spec == Init /\ [][Next]_vars

\* The event loop runs every scheduled callback and steps every ready task,
\* and every gated operation ends; new acquire() calls need not come.
Fairness ==
    /\ WF_vars(Reset)
    /\ \A r \in Requests : WF_vars(Resume(r))
    /\ \A r \in Requests : WF_vars(\E o \in Outcomes : ScopeExit(r, o))

LiveSpec == Spec /\ Fairness

\* ---- derived quantities ---------------------------------------------------
Available == remaining - reserved_requests
Done == {r \in Requests : pc[r] = "done"}
InScope == {r \in Requests : pc[r] = "inscope"}
Waiting == {r \in Requests : pc[r] = "waiting"}
\* containers taken from the queue by the step
Taken == pending_requests \ pending_requests'
\* place of request r among the wake-ups
RECURSIVE Place(_, _)
Place(s, r) == IF s = <<>> THEN 0 ELSE IF Head(s) = r THEN 1 ELSE 1 + Place(Tail(s), r)

\* ---- claims ---------------------------------------------------------------

\* C1: the number of requests admitted between two consecutive replenishment
\* cycles, and between construction and the first cycle, never exceeds limit.
C1_AdmittedPerWindow == admitted <= limit

\* C2: in every reachable state 0 <= reservedCount <= limit.
C2_ReservedInRange == 0 <= reserved_requests /\ reserved_requests <= limit

\* C3: at most one scheduled _reset callback is pending at any instant, and
\* the flag _pending_reset tells whether one is.
C3_OneTimerPending == timers <= 1 /\ (pending_reset <=> timers = 1)

\* C3 witness: a second scope exit found the timer of the first still pending
\* and scheduled none.
C3_Witness == ~cycled /\ Cardinality(Done) >= 2 /\ timers = 1 /\ pending_reset

\* C4: whenever a cycle takes an entry from the queue, no entry with a
\* strictly lower priority value stays queued, and any such entry taken in the
\* same cycle is resolved before it.
C4_LowestPriorityFirst ==
    [][\A x \in Taken : \A y \in pending_requests :
          y.priority < x.priority =>
              /\ y \in Taken
              /\ Place(wakeups', y.future) < Place(wakeups', x.future)]_vars

\* C4 witness: a request was released while one that queued earlier with a
\* greater priority value is still waiting.
C4_Witness ==
    \E a, b \in Requests :
        /\ pc[a] = "released" /\ pc[b] = "waiting"
        /\ prio[a] < prio[b] /\ seqno[b] < seqno[a]

C6_BookkeepingExactlyOnce ==
    /\ \A r \in Requests : bookkept[r] = IF pc[r] = "done" THEN 1 ELSE 0
    /\ reserved_requests = Cardinality(InScope)

\* C6 witness: a scope ended by cancellation after another had ended, each
\* with one run of the bookkeeping.
C6_Witness ==
    /\ last_outcome = "cancelled"
    /\ Cardinality(Done) >= 2
    /\ \A r \in Done : bookkept[r] = 1

\* C7: every request enqueued by acquire is eventually released and admitted
\* (checked under LiveSpec: scopes end, timers fire, woken tasks run).
C7_QueuedEventuallyAdmitted ==
    \A r \in Requests : (pc[r] = "waiting") ~> (pc[r] = "inscope")

\* C7 witness: a request that had been enqueued is inside its scope.
C7_Witness == \E r \in Requests : seqno[r] > 0 /\ pc[r] = "inscope"

\* C8: immediately after construction remaining = limit, reservedCount = 0,
\* pendingReset is false and the queue is empty.
C8_FreshLimiter ==
    (arrived = 0 /\ ~cycled) =>
        /\ remaining = limit
        /\ reserved_requests = 0
        /\ ~pending_reset
        /\ pending_requests = {}

\* C9: on a fresh limiter, after limit + 1 back-to-back acquire calls with no
\* scope ended, limit requests are admitted and the last one is queued.
C9_BackToBack ==
    (~cycled /\ Done = {} /\ arrived = limit + 1) =>
        /\ Cardinality(InScope) = limit
        /\ pc[limit + 1] = "waiting"
        /\ Cardinality(pending_requests) = 1

\* C10: available = remaining - reservedCount is never negative.
C10_AvailableNonNegative == Available >= 0

\* C11: immediately after any cycle that finds the queue empty, remaining =
\* limit, pendingReset is false and no timer is scheduled, whatever remaining
\* and reservedCount were before.
C11_IdleCycle ==
    [][(Reset /\ pending_requests = {}) =>
          (remaining' = limit /\ ~pending_reset' /\ timers' = 0)]_vars

\* C11 witness: a cycle has just run on an empty queue while more scopes than
\* limit were open; remaining is limit and nothing is scheduled.
C11_Witness ==
    /\ cycled /\ admitted = 0 /\ pending_requests = {} /\ wakeups = <<>>
    /\ reserved_requests > limit
    /\ remaining = limit /\ ~pending_reset /\ timers = 0

\* C12: update(retry_after), in any state and for any retry-after value,
\* leaves remaining, reservedCount, pendingReset, the queue and the scheduled
\* timers unchanged.
C12_UpdateFrame ==
    [][\A t \in 0..MaxRetryAfter :
          Update(t) => UNCHANGED <<remaining, reserved_requests, pending_reset,
                                   pending_requests, timers, wakeups, limit>>]_vars

\* C12 witness: update() has been called while requests were queued, scopes
\* were open and a timer was pending.
C12_Witness ==
    warned /\ pending_requests # {} /\ reserved_requests > 0 /\ timers = 1

\* C13: a request that called acquire() without a priority is never released
\* ahead of a request that waits at the same time with an explicit priority.
C13_DefaultIsLeastUrgent ==
    [][\A x \in Taken : \A y \in pending_requests' :
          ~(~given[x.future] /\ given[y.future])]_vars

\* C14: a cycle, having set remaining = limit, takes from the queue and
\* resolves exactly min(queue size, limit - reservedCount) entries when that is
\* positive and none otherwise; every other entry stays queued and unresolved.
C14_ReleasesExactly ==
    [][Reset =>
          LET n == IF Cardinality(pending_requests) <= limit - reserved_requests
                   THEN Cardinality(pending_requests)
                   ELSE limit - reserved_requests
              k == IF n > 0 THEN n ELSE 0
          IN  /\ pending_requests' \subseteq pending_requests
              /\ Cardinality(Taken) = k
              /\ Len(wakeups') = k
              /\ \A x \in Taken : pc'[x.future] = "released"
              /\ \A y \in pending_requests' : pc'[y.future] = "waiting"
              /\ remaining' = limit]_vars

\* C14 witness: a cycle has just released one of two waiting requests.
C14_Witness ==
    /\ cycled /\ admitted = 0
    /\ Len(wakeups) = 1
    /\ Cardinality(pending_requests) = 1
    /\ \A i \in 1..Len(wakeups) : pc[wakeups[i]] = "released"

\* C15: at the end of every cycle a new timer is scheduled, and pendingReset
\* set, exactly when the queue is still non-empty after the releases; when it
\* is empty nothing is scheduled, and only a scope exit schedules a timer then.
C15_RearmIffQueued ==
    [][/\ Reset => /\ (pending_requests' # {}) <=> (pending_reset' /\ timers' = 1)
                   /\ (pending_requests' = {}) <=> (~pending_reset' /\ timers' = 0)
       /\ (timers' > timers) => \E r \in Requests, o \in Outcomes : ScopeExit(r, o)]_vars

\* C15 witness: a cycle released one waiter, left another queued and scheduled
\* the next cycle.
C15_Witness ==
    /\ cycled /\ admitted = 0 /\ Len(wakeups) = 1
    /\ pending_requests # {} /\ pending_reset /\ timers = 1

\* a request is in the queue exactly while it waits, and its future has been
\* resolved once if it was released and never if it is idle or waiting
C16_EntryState ==
    \A r \in Requests :
        /\ resolved[r] <= 1
        /\ Cardinality({c \in pending_requests : c.future = r}) <= 1
        /\ (\E c \in pending_requests : c.future = r) <=> pc[r] = "waiting"
        /\ pc[r] \in {"idle", "waiting"} => resolved[r] = 0
        /\ pc[r] = "released" => resolved[r] = 1

\* C16: the future of every queue entry is resolved exactly once, only by a
\* cycle, in the step that takes the entry from the queue: none is resolved
\* twice, no resolved entry stays queued, no entry leaves the queue unresolved.
C16_ResolvedOnceByCycle ==
    /\ []C16_EntryState
    /\ [][/\ (resolved' # resolved) => Reset
          /\ \A x \in Taken : resolved[x.future] = 0 /\ resolved'[x.future] = 1]_vars

\* C16 witness: a request whose future a cycle resolved once has gone through
\* its scope, and another entry is still queued and unresolved.
C16_Witness ==
    \E a, b \in Requests :
        /\ pc[a] = "done" /\ resolved[a] = 1
        /\ pc[b] = "waiting" /\ resolved[b] = 0

\* C17: whenever a released waiter resumes and increments reservedCount,
\* remaining - reservedCount >= 1 holds just before the increment.
C17_SlotKeptForWaiter ==
    [][(\E r \in Requests : Resume(r)) => Available >= 1]_vars

\* C18: whenever the queue is non-empty, a replenishment timer is pending or
\* at least one admitted request is still in its scope (reservedCount > 0).
C18_WakeUpSource ==
    pending_requests # {} => (timers > 0 \/ reserved_requests > 0)

\* C18 witness: requests wait with no timer scheduled; the open scope's exit
\* will arm one.
C18_Witness ==
    pending_requests # {} /\ timers = 0 /\ ~pending_reset /\ reserved_requests > 0

\* C19: in every state in which every released waiter has resumed, a
\* non-empty queue implies remaining - reservedCount <= 0.
C19_NoWaitWhileFree ==
    (wakeups = <<>> /\ pending_requests # {}) => Available <= 0

\* C19 witness: a released waiter has resumed into the last free slot while
\* another request still waits.
C19_Witness ==
    /\ wakeups = <<>> /\ pending_requests # {} /\ Available = 0
    /\ \E r \in Requests : pc[r] = "inscope" /\ resolved[r] = 1

\* C20: a request that calls acquire with a priority value greater than or
\* equal to that of a request then waiting, or released and not yet resumed,
\* is not admitted before it: it does not pass the gate in that call.
C20_NoOvertaking ==
    [][\A n \in Requests : \A p \in Priorities :
          (Acquire(n, p) /\ pc'[n] = "inscope") =>
              \A q \in Requests :
                  pc[q] \in {"waiting", "released"} => p < prio[q]]_vars

====
